---- MODULE Spec2Model ----
(***************************************************************************)
(* Model of plsel.py: the path-like selector (PathLikeSelector) and the    *)
(* PortMapper that binds a numpy array to a table of hierarchical keys.    *)
(*                                                                         *)
(* A selector string is a sequence of one-character strings.  A label of   *)
(* a key is a tagged value, an integer or a string, so that an integer     *)
(* never equals a string.  The calls into ply, pandas and numpy are        *)
(* modelled by what those libraries do for the arguments plsel.py passes.  *)
(***************************************************************************)
EXTENDS Integers, Sequences, FiniteSets, TLC

\* ------------------------------------------------------------------------
\* Bounds of the model
\* ------------------------------------------------------------------------
MaxBuf == 3         \* length of the array handed to the PortMapper
MaxSels == 2        \* selectors in the list handed to the PortMapper
MaxKeys == 4        \* length of the array when only the constructor is run

\* Python's None for the optional start/stop arguments (only None and
\* non-negative integers are ever passed).
None == 0 - 1

\* ------------------------------------------------------------------------
\* Labels and generic sequence helpers
\* ------------------------------------------------------------------------
IntL(n) == [t |-> "int", i |-> n, s |-> <<>>]
StrL(cs) == [t |-> "str", i |-> 0, s |-> cs]
NoL == [t |-> "none", i |-> 0, s |-> <<>>]

RECURSIVE Flatten(_)
Flatten(ss) == IF ss = <<>> THEN <<>> ELSE Head(ss) \o Flatten(Tail(ss))

RECURSIVE SeqProduct(_)
SeqProduct(ns) == IF ns = <<>> THEN 1 ELSE Head(ns) * SeqProduct(Tail(ns))

Digits == {"0", "1", "2", "3", "4", "5", "6", "7", "8", "9"}

DigitVal(c) ==
    CASE c = "0" -> 0 [] c = "1" -> 1 [] c = "2" -> 2 [] c = "3" -> 3
      [] c = "4" -> 4 [] c = "5" -> 5 [] c = "6" -> 6 [] c = "7" -> 7
      [] c = "8" -> 8 [] c = "9" -> 9

\* The characters the character class [^*/\[\]:] excludes.
StrExcl == {"*", "/", "[", "]", ":"}

\* Number of consecutive characters of s, from position p on, that lie in
\* (inside = TRUE) or outside (inside = FALSE) the set cs.
RECURSIVE Run(_, _, _, _)
Run(s, p, cs, inside) ==
    IF p > Len(s) \/ ((s[p] \in cs) # inside) THEN 0
    ELSE 1 + Run(s, p + 1, cs, inside)

At(s, p, c) == p >= 1 /\ p <= Len(s) /\ s[p] = c

\* str.strip(chars): drop leading and trailing characters that lie in cs.
RECURSIVE LStrip(_, _)
LStrip(s, cs) == IF s # <<>> /\ Head(s) \in cs THEN LStrip(Tail(s), cs) ELSE s
RECURSIVE RStrip(_, _)
RStrip(s, cs) ==
    IF s # <<>> /\ s[Len(s)] \in cs THEN RStrip(SubSeq(s, 1, Len(s) - 1), cs)
    ELSE s
Strip(s, cs) == RStrip(LStrip(s, cs), cs)

\* str.split(c): the pieces between the occurrences of c (always >= 1 piece).
RECURSIVE Split(_, _)
Split(s, c) ==
    LET n == Run(s, 1, {c}, FALSE)
    IN IF n = Len(s) THEN <<s>>
       ELSE <<SubSeq(s, 1, n)>> \o Split(SubSeq(s, n + 2, Len(s)), c)

\* int(s) for a string of decimal digits; IsIntStr tells whether int(s)
\* succeeds (it raises ValueError on '' and on any other character here).
IsIntStr(s) == s # <<>> /\ \A k \in 1..Len(s) : s[k] \in Digits
RECURSIVE ToInt(_)
ToInt(s) ==
    IF s = <<>> THEN 0
    ELSE 10 * ToInt(SubSeq(s, 1, Len(s) - 1)) + DigitVal(s[Len(s)])

\* ------------------------------------------------------------------------
\* Inputs
\* ------------------------------------------------------------------------
\* Selector strings, written segment by segment.
cA == <<"/", "a">>
cB == <<"/", "b">>
cStar == <<"/", "*">>
cI0 == <<"[", "0", "]">>
cI1 == <<"[", "1", "]">>
cIv(a, b) == <<"[">> \o a \o <<":">> \o b \o <<"]">>
cSet(a, b) == <<"[", a, ",", b, "]">>
cSlash == <<"/">>

\* Selectors handed to PortMapper as a single string.
BuildSelectors ==
    { cA,                                   \* /a
      cA \o cIv(<<"0">>, <<"2">>),          \* /a[0:2]
      cA \o cIv(<<"0">>, <<"3">>),          \* /a[0:3]
      cA \o cIv(<<"2">>, <<"1">>),          \* /a[2:1]
      cA \o cIv(<<"1">>, <<>>),             \* /a[1:]
      cA \o cSet("1", "0"),                 \* /a[1,0]
      cA \o cSet("0", "0"),                 \* /a[0,0]
      cA \o cSlash \o cSet("0", "1"),       \* /a/[0,1]
      cSlash \o cSet("b", "a") \o cIv(<<"0">>, <<"2">>),   \* /[b,a][0:2]
      cStar,                                \* /*
      cA \o cStar,                          \* /a/*
      cStar \o cB,                          \* /*/b
      cA \o cStar \o cB,                    \* /a/*/b
      cA \o <<"]">> }                       \* /a]

\* Selectors handed to PortMapper inside a list.
ListSelectors ==
    { cA \o cIv(<<"0">>, <<"2">>),          \* /a[0:2]
      cB \o cSet("1", "0"),                 \* /b[1,0]
      cA \o cB \o cI0 }                     \* /a/b[0]

\* Selectors handed to get and set.
QuerySelectors ==
    { cA,                                   \* /a
      cB,                                   \* /b
      cA \o cI1,                            \* /a[1]
      cA \o cIv(<<"0">>, <<"2">>),          \* /a[0:2]
      cA \o cIv(<<"0">>, <<"3">>),          \* /a[0:3]
      cStar \o cI0,                         \* /*[0]
      cA \o cB \o cI0,                      \* /a/b[0]
      cA \o <<":">> }                       \* /a:

\* The selectors of the unit tests (test_str_one .. test_str_interval_3).
cFoo == <<"/", "f", "o", "o">>
cBar == <<"/", "b", "a", "r">>
cQux == <<"/", "q", "u", "x">>
cMof == <<"/", "m", "o", "f">>
TestSelectors ==
    { cFoo,                                 \* /foo
      cStar \o cQux,                        \* /*/qux
      cBar \o cQux \o cI1,                  \* /bar/qux[1]
      cFoo \o cQux \o cSet("0", "1"),       \* /foo/qux[0,1]
      cFoo \o cSlash \o <<"[", "q", "u", "x", ",", "m", "o", "f", "]">>,
                                            \* /foo/[qux,mof]
      cFoo \o cMof \o cIv(<<>>, <<>>),      \* /foo/mof[:]
      cFoo \o cMof \o cIv(<<"1">>, <<>>),   \* /foo/mof[1:]
      cFoo \o cMof \o cIv(<<>>, <<"2">>),   \* /foo/mof[:2]
      cBar \o cQux \o cIv(<<"0">>, <<"2">>) }   \* /bar/qux[0:2]

\* Selectors that hold an integer token where the test table has a string
\* label and a string token where it has an integer, and the selector of
\* no token.
EvalSelectors ==
    { <<>>,                                 \* (empty)
      cSlash \o cI1,                        \* /[1]
      cFoo \o cI0,                          \* /foo[0]
      cFoo \o cQux \o cQux,                 \* /foo/qux/qux
      cStar \o cStar \o cI0,                \* /*/*[0]
      cFoo \o cSlash \o <<"[", "m", "o", "f", ",", "q", "u", "x", "]">> }
                                            \* /foo/[mof,qux]

\* Selectors with a place where no token rule matches.
BadSelectors ==
    { cFoo \o <<":">>,                      \* /foo:
      <<"f", "o", "o">>,                    \* foo
      cFoo \o cSlash \o cQux,               \* /foo//qux
      cFoo \o cQux \o <<"]">> }             \* /foo/qux]

\* Interval bounds as written in a selector, with the number each text
\* denotes (None: the bound is left out).
IvLos == {[text |-> <<>>, n |-> None], [text |-> <<"0">>, n |-> 0],
          [text |-> <<"1">>, n |-> 1], [text |-> <<"2">>, n |-> 2]}
IvHis == {[text |-> <<>>, n |-> None], [text |-> <<"1">>, n |-> 1],
          [text |-> <<"2">>, n |-> 2], [text |-> <<"1", "0">>, n |-> 10]}

\* Selectors that end in an interval: /a[lo:hi] and /foo/mof[lo:hi], each
\* with the labels its string tokens name and the bounds of its interval.
IntervalCases ==
    {[sel |-> cA \o cIv(lo.text, hi.text), prefix |-> <<StrL(<<"a">>)>>,
      lo |-> lo.n, hi |-> hi.n] : lo \in IvLos, hi \in IvHis}
    \cup {[sel |-> cFoo \o cMof \o cIv(lo.text, hi.text),
           prefix |-> <<StrL(<<"f", "o", "o">>), StrL(<<"m", "o", "f">>)>>,
           lo |-> lo.n, hi |-> hi.n] : lo \in IvLos, hi \in IvHis}
IntervalSelectors == {c.sel : c \in IntervalCases}

\* The segments of the selector grammar, one of each kind, each with the
\* token it denotes: *, foo, [qux,mof], [1], [0,1], [0:5].
Segments ==
    { [text |-> <<"*">>,
       tok |-> [type |-> "ASTERISK", value |-> StrL(<<"*">>), values |-> <<>>,
                start |-> 0, stop |-> 0, inf |-> FALSE]],
      [text |-> <<"f", "o", "o">>,
       tok |-> [type |-> "STRING", value |-> StrL(<<"f", "o", "o">>), values |-> <<>>,
                start |-> 0, stop |-> 0, inf |-> FALSE]],
      [text |-> <<"[", "q", "u", "x", ",", "m", "o", "f", "]">>,
       tok |-> [type |-> "STRING_SET", value |-> NoL,
                values |-> <<StrL(<<"q", "u", "x">>), StrL(<<"m", "o", "f">>)>>,
                start |-> 0, stop |-> 0, inf |-> FALSE]],
      [text |-> <<"[", "1", "]">>,
       tok |-> [type |-> "INTEGER", value |-> IntL(1), values |-> <<>>,
                start |-> 0, stop |-> 0, inf |-> FALSE]],
      [text |-> <<"[", "0", ",", "1", "]">>,
       tok |-> [type |-> "INTEGER_SET", value |-> NoL, values |-> <<IntL(0), IntL(1)>>,
                start |-> 0, stop |-> 0, inf |-> FALSE]],
      [text |-> <<"[", "0", ":", "5", "]">>,
       tok |-> [type |-> "INTERVAL", value |-> NoL, values |-> <<>>,
                start |-> 0, stop |-> 5, inf |-> FALSE]] }

\* The selectors ("/" segment)+ of one and of two segments, each with the
\* tokens its segments denote.
GrammarCases ==
    {[sel |-> cSlash \o a.text, toks |-> <<a.tok>>] : a \in Segments}
    \cup {[sel |-> cSlash \o a.text \o cSlash \o b.text, toks |-> <<a.tok, b.tok>>] :
             a \in Segments, b \in Segments}
GrammarSelectors == {c.sel : c \in GrammarCases}

\* Selectors handed to parse and to count_tokens: of one, two and three
\* tokens, and three that raise after zero, one and two tokens.
LexSelectors ==
    { cFoo,                                 \* /foo
      cFoo \o cMof \o cIv(<<"1">>, <<>>),   \* /foo/mof[1:]
      cStar \o cQux,                        \* /*/qux
      cFoo \o cQux \o cSet("0", "1"),       \* /foo/qux[0,1]
      <<"f", "o", "o">>,                    \* foo
      cFoo \o <<":">>,                      \* /foo:
      cFoo \o cQux \o <<"]">> }             \* /foo/qux]

\* Level names: those of the unit tests' table (the integers 0, 1, 2) and
\* names that are Python identifiers.
nX == StrL(<<"x">>)
nY == StrL(<<"y">>)
nZ == StrL(<<"z">>)
TestNames == {<<IntL(0), IntL(1), IntL(2)>>, <<nX, nY, nZ>>}
NameLists == {<<nX, nY>>, <<nX, nY, nZ>>}

\* Selectors handed to make_index with level names.
NamedSelectors ==
    { cA \o cIv(<<"0">>, <<"3">>),                         \* /a[0:3]
      cSlash \o cSet("b", "a") \o cIv(<<"0">>, <<"2">>) }   \* /[b,a][0:2]

\* Selectors handed to query whose set token leaves out rows of the tables.
SetSelectors ==
    { cA \o cSet("1", "0"),                 \* /a[1,0]
      cFoo \o cMof \o cSet("0", "1"),       \* /foo/mof[0,1]
      cSlash \o <<"[", "f", "o", "o", ",", "b", "a", "r", "]">> \o cQux }
                                            \* /[foo,bar]/qux

\* Lists of digit groups, and the integer set written from each: without
\* and with the leading separator.
DigitGroups ==
    { <<<<"0">>, <<"1">>>>, <<<<"1">>, <<"0">>>>, <<<<"0">>, <<"0">>>>,
      <<<<"1", "0">>, <<"2">>>>, <<<<"0">>, <<"1">>, <<"2">>>> }
RECURSIVE Join(_, _)
Join(groups, c) ==
    IF Len(groups) = 1 THEN groups[1]
    ELSE groups[1] \o <<c>> \o Join(Tail(groups), c)
IntegerSetCases ==
    {[groups |-> g,
      bare |-> <<"[">> \o Join(g, ",") \o <<"]">>,
      sep |-> <<"/", "[">> \o Join(g, ",") \o <<"]">>] : g \in DigitGroups}
IntegerSetSelectors == {c.bare : c \in IntegerSetCases} \cup {c.sep : c \in IntegerSetCases}

\* The level windows (start, stop) handed to get_tuples and select.
Windows == {<<None, None>>, <<1, None>>, <<None, 1>>, <<2, 1>>, <<None, 4>>}

\* Values of array elements.
Vals == {10, 20}

RECURSIVE SeqsUpTo(_, _)
SeqsUpTo(S, n) ==
    IF n = 0 THEN {<<>>}
    ELSE LET shorter == SeqsUpTo(S, n - 1)
         IN shorter \cup {Append(q, x) : q \in {r \in shorter : Len(r) = n - 1}, x \in S}

\* The arrays a caller passes to the constructor.
Arrays == SeqsUpTo(Vals, MaxBuf)

\* The arrays a caller creates to pass to set: for every length the one
\* that starts with 10 and the one that starts with 20, values alternating.
Alternating(first, n) ==
    [k \in 1..n |-> IF k % 2 = 1 THEN first ELSE 30 - first]
ValueArrays == {Alternating(f, n) : f \in Vals, n \in 0..MaxBuf}

\* The selectors arguments of the constructor: one string, or a list.
SelectorArgs ==
    {[list |-> FALSE, sels |-> <<s>>] : s \in BuildSelectors}
    \cup {[list |-> TRUE, sels |-> ss] : ss \in SeqsUpTo(ListSelectors, MaxSels)}

\* ------------------------------------------------------------------------
\* Tokens (ply LexToken: type and value)
\* ------------------------------------------------------------------------
\* value   the value of an ASTERISK, INTEGER or STRING token
\* values  the list that is the value of an INTEGER_SET or STRING_SET token
\* start, stop, inf   the pair that is the value of an INTERVAL token;
\*                    inf tells that stop is numpy.inf
Tok(type, value, values, start, stop, inf) ==
    [type |-> type, value |-> value, values |-> values,
     start |-> start, stop |-> stop, inf |-> inf]

\* _parse_interval_str: 'a:b' to (start, stop)
\* IntervalOfParts with a missing start read as 1.
IntervalOfParts_StartOne(parts) ==
    [start |-> IF parts[1] = <<>> THEN 1 ELSE ToInt(parts[1]),
     stop |-> IF parts[2] = <<>> THEN 0 ELSE ToInt(parts[2]),
     inf |-> parts[2] = <<>>]

IntervalOfParts(parts) ==
    [start |-> IF parts[1] = <<>> THEN 0 ELSE ToInt(parts[1]),
     stop |-> IF parts[2] = <<>> THEN 0 ELSE ToInt(parts[2]),
     inf |-> parts[2] = <<>>]
_parse_interval_str(s) == IntervalOfParts(Split(s, ":"))

\* Each m_X(s, p) is the end (the position after the last matched
\* character) of the match of token rule X's regular expression at
\* position p of s, or 0 when it does not match there.

\* r'/\*'
m_ASTERISK(s, p) == IF At(s, p, "/") /\ At(s, p + 1, "*") THEN p + 2 ELSE 0

\* r'/?\[\d+\]'
m_INTEGER(s, p) ==
    LET q == IF At(s, p, "/") THEN p + 1 ELSE p
        d == Run(s, q + 1, Digits, TRUE)
    IN IF At(s, q, "[") /\ d >= 1 /\ At(s, q + 1 + d, "]") THEN q + 2 + d
       ELSE 0

\* r'/?\[(?:\d+,?)+\]'
m_INTEGER_SET(s, p) ==
    LET q == IF At(s, p, "/") THEN p + 1 ELSE p
        r == Run(s, q + 1, Digits \cup {","}, TRUE)
    IN IF /\ At(s, q, "[")
          /\ r >= 1
          /\ s[q + 1] \in Digits
          /\ \A k \in (q + 1)..(q + r - 1) : ~(s[k] = "," /\ s[k + 1] = ",")
          /\ At(s, q + 1 + r, "]")
       THEN q + 2 + r
       ELSE 0

\* r'\[\d*\:\d*\]'
m_INTERVAL(s, p) ==
    LET d1 == Run(s, p + 1, Digits, TRUE)
        d2 == Run(s, p + 2 + d1, Digits, TRUE)
    IN IF At(s, p, "[") /\ At(s, p + 1 + d1, ":") /\ At(s, p + 2 + d1 + d2, "]")
       THEN p + 3 + d1 + d2
       ELSE 0

\* m_STRING that runs on through brackets and colons.
m_STRING_ThroughBrackets(s, p) ==
    IF At(s, p, "/") /\ p + 1 <= Len(s) /\ s[p + 1] \notin (StrExcl \cup Digits)
    THEN p + 2 + Run(s, p + 2, {"*", "/"}, FALSE)
    ELSE 0

\* r'/[^*/\[\]:\d][^*/\[\]:]*'
m_STRING(s, p) ==
    IF At(s, p, "/") /\ p + 1 <= Len(s) /\ s[p + 1] \notin (StrExcl \cup Digits)
    THEN p + 2 + Run(s, p + 2, StrExcl, FALSE)
    ELSE 0

\* r'/\[(?:[^*/\[\]:\d][^*/\[\]:]*,?)+\]'
m_STRING_SET(s, p) ==
    LET r == Run(s, p + 2, StrExcl, FALSE)
    IN IF /\ At(s, p, "/") /\ At(s, p + 1, "[")
          /\ r >= 1
          /\ s[p + 2] \notin Digits
          /\ At(s, p + 2 + r, "]")
       THEN p + 3 + r
       ELSE 0

\* The token functions: the value each computes from the matched text m.
\* ok = FALSE when the function raises (int() in t_INTEGER_SET).
t_ASTERISK(m) ==
    [ok |-> TRUE, tok |-> Tok("ASTERISK", StrL(Strip(m, {"/"})), <<>>, 0, 0, FALSE)]

t_INTEGER(m) ==
    LET body == Strip(m, {"/"})
        digs == SubSeq(body, 2, Len(body) - 1)
    IN [ok |-> TRUE, tok |-> Tok("INTEGER", IntL(ToInt(digs)), <<>>, 0, 0, FALSE)]

IntegerSetOfParts(parts) ==
    IF \A k \in 1..Len(parts) : IsIntStr(parts[k])
    THEN [ok |-> TRUE,
          tok |-> Tok("INTEGER_SET", NoL,
                      [k \in 1..Len(parts) |-> IntL(ToInt(parts[k]))], 0, 0, FALSE)]
    ELSE [ok |-> FALSE, tok |-> Tok("INTEGER_SET", NoL, <<>>, 0, 0, FALSE)]
t_INTEGER_SET(m) == IntegerSetOfParts(Split(Strip(m, {"[", "]"}), ","))

IntervalTok(iv) ==
    [ok |-> TRUE, tok |-> Tok("INTERVAL", NoL, <<>>, iv.start, iv.stop, iv.inf)]
t_INTERVAL(m) == IntervalTok(_parse_interval_str(SubSeq(m, 2, Len(m) - 1)))

t_STRING(m) ==
    [ok |-> TRUE, tok |-> Tok("STRING", StrL(Strip(m, {"/"})), <<>>, 0, 0, FALSE)]

StringSetOfParts(parts) ==
    [ok |-> TRUE,
     tok |-> Tok("STRING_SET", NoL, [k \in 1..Len(parts) |-> StrL(parts[k])], 0, 0, FALSE)]
t_STRING_SET(m) == StringSetOfParts(Split(Strip(m, {"/", "[", "]"}), ","))

\* One step of the lexer built by _build: ply tries the rules in the order
\* the token functions are written in the class and takes the first
\* that matches at p.  end = 0: no rule matches (t_error raises).
LexMatches(s, p) ==
    [ASTERISK |-> m_ASTERISK(s, p), INTEGER |-> m_INTEGER(s, p),
     INTEGER_SET |-> m_INTEGER_SET(s, p), INTERVAL |-> m_INTERVAL(s, p),
     STRING |-> m_STRING(s, p), STRING_SET |-> m_STRING_SET(s, p)]
LexFirst(s, p, e) ==
    IF e.ASTERISK # 0 THEN
        [end |-> e.ASTERISK, r |-> t_ASTERISK(SubSeq(s, p, e.ASTERISK - 1))]
    ELSE IF e.INTEGER # 0 THEN
        [end |-> e.INTEGER, r |-> t_INTEGER(SubSeq(s, p, e.INTEGER - 1))]
    ELSE IF e.INTEGER_SET # 0 THEN
        [end |-> e.INTEGER_SET, r |-> t_INTEGER_SET(SubSeq(s, p, e.INTEGER_SET - 1))]
    ELSE IF e.INTERVAL # 0 THEN
        [end |-> e.INTERVAL, r |-> t_INTERVAL(SubSeq(s, p, e.INTERVAL - 1))]
    ELSE IF e.STRING # 0 THEN
        [end |-> e.STRING, r |-> t_STRING(SubSeq(s, p, e.STRING - 1))]
    ELSE IF e.STRING_SET # 0 THEN
        [end |-> e.STRING_SET, r |-> t_STRING_SET(SubSeq(s, p, e.STRING_SET - 1))]
    ELSE [end |-> 0, r |-> t_ASTERISK(<<>>)]
LexStep(s, p) == LexFirst(s, p, LexMatches(s, p))

\* parse(selector): the token list, or the ValueError raised on the way
\* (err "lex": t_error; err "int": int() inside t_INTEGER_SET).
RECURSIVE ParseFrom(_, _, _)
\* ParseToken that returns the tokens found so far when no rule matches.
ParseToken_KeepsPrefix(s, st, acc) ==
    IF st.end = 0 THEN [err |-> "none", toks |-> acc]
    ELSE IF ~st.r.ok THEN [err |-> "int", toks |-> <<>>]
    ELSE ParseFrom(s, st.end, Append(acc, st.r.tok))

ParseToken(s, st, acc) ==
    IF st.end = 0 THEN [err |-> "lex", toks |-> <<>>]
    ELSE IF ~st.r.ok THEN [err |-> "int", toks |-> <<>>]
    ELSE ParseFrom(s, st.end, Append(acc, st.r.tok))
ParseFrom(s, p, acc) ==
    IF p > Len(s) THEN [err |-> "none", toks |-> acc]
    ELSE ParseToken(s, LexStep(s, p), acc)

\* The token lists of the selectors the model passes, computed once.
ParseTable ==
    [s \in BuildSelectors \cup ListSelectors \cup QuerySelectors \cup TestSelectors
            \cup IntervalSelectors \cup EvalSelectors \cup BadSelectors
            \cup GrammarSelectors \cup IntegerSetSelectors \cup SetSelectors |->
        ParseFrom(s, 1, <<>>)]

parse(selector) == ParseTable[selector]

\* The lexer object _build makes (self.lexer): the text it scans and the
\* position of its next match.
NewLexer == [lexdata |-> <<>>, lexpos |-> 1]

\* lexer.input(selector) that keeps the position the last scan stopped at.
lexer_input_KeepsPosition(lexer, selector) ==
    [lexdata |-> selector, lexpos |-> lexer.lexpos]

\* lexer.input(selector): the new text, scanned from its start.
lexer_input(lexer, selector) == [lexdata |-> selector, lexpos |-> 1]

\* The position the calls of lexer.token() leave in the lexer: one past the
\* end after the last token, the place no rule matches at when t_error
\* raises, the end of the match when the token function raises.
RECURSIVE LexPosAfter(_, _)
LexPosToken(s, p, st) ==
    IF st.end = 0 THEN p
    ELSE IF ~st.r.ok THEN st.end
    ELSE LexPosAfter(s, st.end)
LexPosAfter(s, p) ==
    IF p > Len(s) THEN p + 1
    ELSE LexPosToken(s, p, LexStep(s, p))

\* The positions the lexer is left at by the scans from the start of the
\* selectors the model passes, computed once.
LexPosTable == [s \in DOMAIN ParseTable |-> LexPosAfter(s, 1)]

\* The loop "while True: token = self.lexer.token()" of parse and of
\* count_tokens run on the lexer as it is: what it returns or raises, and
\* the lexer after it.
TokenLoop(lexer) ==
    IF lexer.lexpos = 1
    THEN [res |-> parse(lexer.lexdata),
          lexer |-> [lexer EXCEPT !.lexpos = LexPosTable[lexer.lexdata]]]
    ELSE [res |-> ParseFrom(lexer.lexdata, lexer.lexpos, <<>>),
          lexer |-> [lexer EXCEPT !.lexpos = LexPosAfter(lexer.lexdata, lexer.lexpos)]]

\* self.parse(selector) on an instance whose lexer is in the given state.
self_parse(lexer, selector) == TokenLoop(lexer_input(lexer, selector))

\* self.count_tokens(selector): the number of tokens, or the exception.
CountOf(res) ==
    IF res.err # "none" THEN [err |-> "ValueError", count |-> 0]
    ELSE [err |-> "none", count |-> Len(res.toks)]

\* ------------------------------------------------------------------------
\* Tables: a pandas MultiIndex is its number of levels and its rows' keys
\* (tuples of labels) in row order; a Series or DataFrame is an index and
\* one value per row.
\* ------------------------------------------------------------------------
MkIndex(nlevels, keys) == [nlevels |-> nlevels, keys |-> keys]
MkSeries(index, values) == [index |-> index, values |-> values]
EmptyIndex == MkIndex(0, <<>>)
EmptySeries == MkSeries(EmptyIndex, <<>>)

\* numpy.repeat(x, n) and numpy.tile(x, n)
Repeat(x, n) == Flatten([k \in 1..Len(x) |-> [j \in 1..n |-> x[k]]])
Tile(x, n) == Flatten([j \in 1..n |-> x])

\* pandas cartesian_product(X): one column per list, column i being
\* tile(repeat(X[i], b[i]), a[i]) with a[i] the product of the lengths
\* before i and b[i] the product of the lengths after i.
cumprod(lenX) == [i \in 1..Len(lenX) |-> SeqProduct(SubSeq(lenX, 1, i))]
TileRepeat(X, cumprodX) ==
    [i \in 1..Len(X) |->
        Tile(Repeat(X[i], IF cumprodX[i] = 0 THEN 0
                          ELSE cumprodX[Len(X)] \div cumprodX[i]),
             IF i = 1 THEN 1 ELSE cumprodX[i - 1])]
cartesian_product(X) == TileRepeat(X, cumprod([i \in 1..Len(X) |-> Len(X[i])]))

\* pandas MultiIndex.from_product(list_list): row r holds element r of
\* every column of the cartesian product.
Zip(cols) ==
    MkIndex(Len(cols),
            [r \in 1..(IF cols = <<>> THEN 0 ELSE Len(cols[1])) |->
                [i \in 1..Len(cols) |-> cols[i][r]]])
from_product(list_list) == Zip(cartesian_product(list_list))

\* range(a, b)
Range(a, b) == IF b <= a THEN <<>> ELSE [k \in 1..(b - a) |-> IntL(a + k - 1)]

\* The list make_index appends to list_list for one token.
TokenList(token) ==
    IF token.type = "INTERVAL" THEN Range(token.start, token.stop)
    ELSE IF token.type \in {"INTEGER_SET", "STRING_SET"} THEN token.values
    ELSE <<token.value>>

\* The assertion of make_index: re.match(r'/\*/', selector) must fail.
StartsWithWildcard(selector) ==
    At(selector, 1, "/") /\ At(selector, 2, "*") /\ At(selector, 3, "/")

\* make_index(selector): the index, or the exception raised
\* (range(a, numpy.inf) raises TypeError).
make_index_parsed(selector, p) ==
    IF StartsWithWildcard(selector) THEN [err |-> "AssertionError", idx |-> EmptyIndex]
    ELSE IF p.err # "none" THEN [err |-> "ValueError", idx |-> EmptyIndex]
    ELSE IF \E k \in 1..Len(p.toks) : p.toks[k].type = "INTERVAL" /\ p.toks[k].inf
         THEN [err |-> "TypeError", idx |-> EmptyIndex]
    ELSE [err |-> "none",
          idx |-> from_product([k \in 1..Len(p.toks) |-> TokenList(p.toks[k])])]
make_index(selector) == make_index_parsed(selector, parse(selector))

\* Python slicing x[start:stop] for None or non-negative start and stop.
SliceLo(n, start) == IF start = None THEN 0 ELSE IF start > n THEN n ELSE start
SliceHi(n, stop) == IF stop = None THEN n ELSE IF stop > n THEN n ELSE stop
Slice(x, start, stop) == SubSeq(x, SliceLo(Len(x), start) + 1, SliceHi(Len(x), stop))
\* SliceLen that does not look at start.
SliceLen_IgnoresStart(n, start, stop) == SliceHi(n, stop)

SliceLen(n, start, stop) ==
    IF SliceHi(n, stop) > SliceLo(n, start) THEN SliceHi(n, stop) - SliceLo(n, start)
    ELSE 0

\* TokenPasses with an interval that excludes its start.
TokenPasses_OpenStart(label, token) ==
    IF token.type = "ASTERISK" THEN TRUE
    ELSE IF token.type \in {"INTEGER", "STRING"} THEN label = token.value
    ELSE IF token.type \in {"INTEGER_SET", "STRING_SET"} THEN
        \E k \in 1..Len(token.values) : token.values[k] = label
    ELSE IF token.type = "INTERVAL" THEN
        /\ label.t = "int"
        /\ label.i > token.start
        /\ (token.inf \/ label.i < token.stop)
    ELSE TRUE

\* One iteration of the loop of _select_test: does the label pass the token?
\* (Python 2 orders every string above every number, so a string label
\* is never inside an interval.)
TokenPasses(label, token) ==
    IF token.type = "ASTERISK" THEN TRUE
    ELSE IF token.type \in {"INTEGER", "STRING"} THEN label = token.value
    ELSE IF token.type \in {"INTEGER_SET", "STRING_SET"} THEN
        \E k \in 1..Len(token.values) : token.values[k] = label
    ELSE IF token.type = "INTERVAL" THEN
        /\ label.t = "int"
        /\ label.i >= token.start
        /\ (token.inf \/ label.i < token.stop)
    ELSE TRUE

\* RowPasses that tests the first token only.
RowPasses_FirstTokenOnly(row_sub, token_list) ==
    \A i \in 1..(IF token_list = <<>> THEN 0 ELSE 1) :
       \/ token_list[i].type = "ASTERISK"
       \/ i <= Len(row_sub) /\ TokenPasses(row_sub[i], token_list[i])

\* An ASTERISK token is passed without reading row_sub[i].
RowPasses(row_sub, token_list) ==
    \A i \in 1..Len(token_list) :
       \/ token_list[i].type = "ASTERISK"
       \/ i <= Len(row_sub) /\ TokenPasses(row_sub[i], token_list[i])

\* row_sub[i] raises IndexError: the loop reaches a token, not an ASTERISK,
\* for which row_sub has no entry.
RowRaises(row_sub, token_list) ==
    \E i \in 1..Len(token_list) :
       /\ i > Len(row_sub)
       /\ token_list[i].type # "ASTERISK"
       /\ RowPasses(row_sub, SubSeq(token_list, 1, i - 1))
_select_test(row, token_list, start, stop) ==
    RowPasses(Slice(row, start, stop), token_list)

\* The row numbers r with mask[r] true, in increasing order (indexing by a
\* boolean mask, and the order of a list comprehension with a condition).
\* Filter that lists the rows in decreasing order.
RECURSIVE Filter_Descending(_)
Filter_Descending(mask) ==
    IF mask = <<>> THEN <<>>
    ELSE IF mask[Len(mask)]
         THEN <<Len(mask)>> \o Filter_Descending(SubSeq(mask, 1, Len(mask) - 1))
         ELSE Filter_Descending(SubSeq(mask, 1, Len(mask) - 1))

RECURSIVE Filter(_)
Filter(mask) ==
    IF mask = <<>> THEN <<>>
    ELSE IF mask[Len(mask)]
         THEN Append(Filter(SubSeq(mask, 1, Len(mask) - 1)), Len(mask))
         ELSE Filter(SubSeq(mask, 1, Len(mask) - 1))

\* The mask of the rows of df that pass _select_test.
RowMask(df, token_list, start, stop) ==
    [r \in 1..Len(df.index.keys) |->
        _select_test(df.index.keys[r], token_list, start, stop)]

\* _select_test raises for some row of df.
AnyRowRaises(df, token_list, start, stop) ==
    \E r \in 1..Len(df.index.keys) :
       RowRaises(Slice(df.index.keys[r], start, stop), token_list)

KeysAt(df, rows) == [j \in 1..Len(rows) |-> df.index.keys[rows[j]]]

\* get_tuples(df, selector, start, stop)
get_tuples_parsed(df, p, start, stop) ==
    IF p.err # "none" THEN [err |-> "ValueError", tuples |-> <<>>]
    ELSE IF Len(p.toks) > SliceLen(df.index.nlevels, start, stop)
         THEN [err |-> "ValueError", tuples |-> <<>>]
    ELSE IF AnyRowRaises(df, p.toks, start, stop)
         THEN [err |-> "IndexError", tuples |-> <<>>]
    ELSE [err |-> "none",
          tuples |-> KeysAt(df, Filter(RowMask(df, p.toks, start, stop)))]
get_tuples(df, selector, start, stop) ==
    get_tuples_parsed(df, parse(selector), start, stop)

\* get_index(df, selector, start, stop): the MultiIndex of the tuples
\* get_tuples returns; no tuple raises ValueError.
get_index_tuples(r) ==
    IF r.err # "none" THEN [err |-> r.err, idx |-> EmptyIndex]
    ELSE IF r.tuples = <<>> THEN [err |-> "ValueError", idx |-> EmptyIndex]
    ELSE [err |-> "none", idx |-> MkIndex(Len(r.tuples[1]), r.tuples)]
get_index(df, selector, start, stop) ==
    get_index_tuples(get_tuples(df, selector, start, stop))

IsUnique(keys) == \A i, j \in 1..Len(keys) : keys[i] = keys[j] => i = j

\* pandas select(crit): the axis labels that satisfy crit, then reindex to
\* them; reindexing an index with duplicate keys to anything but itself
\* raises.
Reindex(df, rows) ==
    IF Len(rows) # Len(df.index.keys) /\ ~IsUnique(df.index.keys)
    THEN [err |-> "Exception", df |-> EmptySeries]
    ELSE [err |-> "none",
          df |-> MkSeries(MkIndex(df.index.nlevels, KeysAt(df, rows)),
                          [j \in 1..Len(rows) |-> df.values[rows[j]]])]
pandas_select(df, mask) == Reindex(df, Filter(mask))

\* select(df, selector, start, stop)
select_parsed(df, p, start, stop) ==
    IF p.err # "none" THEN [err |-> "ValueError", df |-> EmptySeries]
    ELSE IF Len(p.toks) > SliceLen(df.index.nlevels, start, stop)
         THEN [err |-> "ValueError", df |-> EmptySeries]
    ELSE IF AnyRowRaises(df, p.toks, start, stop)
         THEN [err |-> "IndexError", df |-> EmptySeries]
    ELSE pandas_select(df, RowMask(df, p.toks, start, stop))
select(df, selector, start, stop) == select_parsed(df, parse(selector), start, stop)

\* _isvalidvarname(s): re.match('[a-zA-Z_]\w*', s) finds a match at the
\* start of s; a name that is no string (None, an integer) makes re.match
\* raise TypeError and the answer False.
IdentifierStart ==
    {"a", "b", "c", "d", "e", "f", "g", "h", "i", "j", "k", "l", "m", "n", "o",
     "p", "q", "r", "s", "t", "u", "v", "w", "x", "y", "z", "_",
     "A", "B", "C", "D", "E", "F", "G", "H", "I", "J", "K", "L", "M", "N", "O",
     "P", "Q", "R", "S", "T", "U", "V", "W", "X", "Y", "Z"}
_isvalidvarname(s) ==
    s.t = "str" /\ Len(s.s) >= 1 /\ s.s[1] \in IdentifierStart

\* The comparisons query writes for one token at level i: name == name for
\* a wildcard, name == value for an integer or a string, name >= start and,
\* unless the stop is numpy.inf, name < stop for an interval; nothing for an
\* integer set or a string set.
ExprOf(i, token) ==
    IF token.type = "ASTERISK" THEN <<[level |-> i, op |-> "self", val |-> NoL]>>
    ELSE IF token.type \in {"INTEGER", "STRING"} THEN
        <<[level |-> i, op |-> "==", val |-> token.value]>>
    ELSE IF token.type = "INTERVAL" THEN
        <<[level |-> i, op |-> ">=", val |-> IntL(token.start)]>>
        \o (IF token.inf THEN <<>>
            ELSE <<[level |-> i, op |-> "<", val |-> IntL(token.stop)]>>)
    ELSE <<>>
expr_list(token_list) ==
    Flatten([i \in 1..Len(token_list) |-> ExprOf(i, token_list[i])])

\* One comparison of the expression on one label.  A string label and an
\* integer are never equal and Python 2 orders the string above.
ExprHolds(label, e) ==
    IF e.op = "self" THEN TRUE
    ELSE IF e.op = "==" THEN label = e.val
    ELSE IF e.op = ">=" THEN label.t = "str" \/ label.i >= e.val.i
    ELSE label.t = "int" /\ label.i < e.val.i

\* The comparison sets a label against a value of the other type.
ExprMixesTypes(df, e) ==
    e.op # "self" /\ \E r \in 1..Len(df.index.keys) : df.index.keys[r][e.level].t # e.val.t

\* pandas df.query(' and '.join(expr_list)): the rows on which every
\* comparison holds, in the order of df; the empty expression raises
\* SyntaxError.  strict: the pandas at hand refuses to compare a string
\* with an integer, where another compares them as Python does.
QueryMask(df, exprs) ==
    [r \in 1..Len(df.index.keys) |->
        \A k \in 1..Len(exprs) : ExprHolds(df.index.keys[r][exprs[k].level], exprs[k])]
BooleanIndex(df, rows) ==
    MkSeries(MkIndex(df.index.nlevels, KeysAt(df, rows)),
             [j \in 1..Len(rows) |-> df.values[rows[j]]])
pandas_query(df, exprs, strict) ==
    IF exprs = <<>> THEN [err |-> "SyntaxError", df |-> EmptySeries]
    ELSE IF strict /\ \E k \in 1..Len(exprs) : ExprMixesTypes(df, exprs[k])
         THEN [err |-> "TypeError", df |-> EmptySeries]
    ELSE [err |-> "none", df |-> BooleanIndex(df, Filter(QueryMask(df, exprs)))]

\* query(df, selector) for a df whose index has the level names index_names
query_parsed(df, index_names, p, strict) ==
    IF p.err # "none" THEN [err |-> "ValueError", df |-> EmptySeries]
    ELSE IF Len(p.toks) > Len(index_names)
         THEN [err |-> "ValueError", df |-> EmptySeries]
    ELSE IF \E k \in 1..Len(index_names) : ~_isvalidvarname(index_names[k])
         THEN [err |-> "AssertionError", df |-> EmptySeries]
    ELSE pandas_query(df, expr_list(p.toks), strict)
query(df, index_names, selector, strict) ==
    query_parsed(df, index_names, parse(selector), strict)

\* make_index(selector, names): from_product raises when the number of
\* names is not the number of levels.
make_index_named(r, index_names) ==
    IF r.err # "none" THEN r
    ELSE IF Len(index_names) # r.idx.nlevels
         THEN [err |-> "ValueError", idx |-> EmptyIndex]
    ELSE r

\* ------------------------------------------------------------------------
\* State
\* ------------------------------------------------------------------------
VARIABLES
    pm,     \* the PortMapper: built, data (a reference into heap), portmap
    heap,   \* the numpy arrays: ctor, the array the caller passed to the
            \* constructor, and tmp, the array the caller last got from get
            \* or created to pass to set
    tmp,    \* the caller's reference to that array: "null", or the object
    last,   \* the last call: op, the selectors passed, err (the exception)
    lexer,  \* the lexer of the PathLikeSelector: lexdata, lexpos
    df,     \* the DataFrame a PathLikeSelector is used on
    names,  \* the names of the levels of df's index (df.index.names)
    built,  \* the selector df's index was made from (<<>>: the test table)
    out     \* the last PathLikeSelector call: op, its arguments, err, and
            \* in keys what it returned: the keys of the rows, the tokens
            \* (parse) or the count (count_tokens)

pmVars == <<pm, heap, tmp, last>>
selVars == <<lexer, df, names, built, out>>
vars == <<pm, heap, tmp, last, lexer, df, names, built, out>>

NoPortMapper == [built |-> FALSE, data |-> "null", portmap |-> EmptySeries]
Call(op, list, sels, err) == [op |-> op, list |-> list, sels |-> sels, err |-> err]
SelCall(op, sel, start, stop, err, keys) ==
    [op |-> op, sel |-> sel, start |-> start, stop |-> stop, err |-> err, keys |-> keys]
NoSelCall == SelCall("none", <<>>, None, None, "none", <<>>)

\* The DataFrame of the unit tests (setUp).
TestDF ==
    LET foo == StrL(<<"f", "o", "o">>)
        bar == StrL(<<"b", "a", "r">>)
        baz == StrL(<<"b", "a", "z">>)
        qux == StrL(<<"q", "u", "x">>)
        mof == StrL(<<"m", "o", "f">>)
    IN MkSeries(MkIndex(3, << <<foo, qux, IntL(0)>>, <<foo, qux, IntL(1)>>,
                              <<foo, mof, IntL(0)>>, <<foo, mof, IntL(1)>>,
                              <<foo, mof, IntL(2)>>, <<bar, qux, IntL(0)>>,
                              <<bar, qux, IntL(1)>>, <<bar, qux, IntL(2)>>,
                              <<baz, qux, IntL(0)>>, <<baz, mof, IntL(0)>> >>),
                [k \in 1..10 |-> k - 1])

\* ------------------------------------------------------------------------
\* PortMapper
\* ------------------------------------------------------------------------
\* numpy.arange(n)
arange(n) == [k \in 1..n |-> k - 1]

\* pandas MultiIndex.append(other): the rows of other after the rows of
\* self.  Keys of other with more levels are cut to the levels of self;
\* when other has fewer levels the result is a flat Index of tuples.
MultiIndex_append(self, other) ==
    IF other.nlevels >= self.nlevels
    THEN MkIndex(self.nlevels,
                 self.keys \o [r \in 1..Len(other.keys) |->
                                  SubSeq(other.keys[r], 1, self.nlevels)])
    ELSE MkIndex(1, self.keys \o other.keys)

\* reduce(pd.MultiIndex.append, idx_list) for a non-empty idx_list
RECURSIVE reduce_append(_)
reduce_append(idx_list) ==
    IF Len(idx_list) = 1 THEN idx_list[1]
    ELSE MultiIndex_append(reduce_append(SubSeq(idx_list, 1, Len(idx_list) - 1)),
                           idx_list[Len(idx_list)])

\* The index __init__ builds from its selectors argument, or the exception
\* of the first make_index that raises.
IdxOfMade(selectors, made) ==
    LET bad == {k \in 1..Len(made) : made[k].err # "none"}
    IN IF bad # {}
       THEN [err |-> made[CHOOSE k \in bad : \A j \in bad : k <= j].err,
             idx |-> EmptyIndex]
       ELSE IF selectors.list /\ selectors.sels = <<>>
            THEN [err |-> "TypeError", idx |-> EmptyIndex]
       ELSE IF selectors.list
            THEN [err |-> "none",
                  idx |-> reduce_append([k \in 1..Len(made) |-> made[k].idx])]
       ELSE [err |-> "none", idx |-> made[1].idx]
BuildIdx(selectors) ==
    IdxOfMade(selectors,
              [k \in 1..Len(selectors.sels) |-> make_index(selectors.sels[k])])

\* self.data = data: the PortMapper keeps the reference to the caller's array.
KeepData(ref) == ref

\* AssignIndex without the length check of the index assignment.
AssignIndex_NoLengthCheck(data, b) ==
    IF b.err # "none" THEN [err |-> b.err, pm |-> NoPortMapper]
    ELSE [err |-> "none",
          pm |-> [built |-> TRUE, data |-> KeepData(data),
                  portmap |-> MkSeries(b.idx, arange(Len(heap[data])))]]

\* self.portmap = Series(arange(len(data))); self.portmap.index = idx.
\* Assigning an index whose length differs from the Series' raises.
AssignIndex(data, b) ==
    IF b.err # "none" THEN [err |-> b.err, pm |-> NoPortMapper]
    ELSE IF Len(b.idx.keys) # Len(heap[data])
         THEN [err |-> "ValueError", pm |-> NoPortMapper]
    ELSE [err |-> "none",
          pm |-> [built |-> TRUE, data |-> KeepData(data),
                  portmap |-> MkSeries(b.idx, arange(Len(heap[data])))]]

\* PortMapper.__init__(data, selectors); data is the reference to an array.
PortMapper_init(data, selectors) == AssignIndex(data, BuildIdx(selectors))

\* FancyIndex that reads the first index for every element.
FancyIndex_First(a, idx) == [j \in 1..Len(idx) |-> a[idx[1] + 1]]

\* numpy a[idx] for an integer array idx: a new array.
FancyIndex(a, idx) == [j \in 1..Len(idx) |-> a[idx[j] + 1]]

\* GetResultObject of a get that hands out the buffer itself.
GetResultObject_View(data) == data

\* The object the array returned by get is: a new one, not the buffer.
GetResultObject(data) == "tmp"

\* PortMapper.get(selector)
GetSelected(r) ==
    IF r.err # "none" THEN [err |-> r.err, result |-> <<>>]
    ELSE [err |-> "none", result |-> FancyIndex(heap[pm.data], r.df.values)]
PortMapper_get(selector) == GetSelected(select(pm.portmap, selector, None, None))

\* FancyAssign that writes to the first Len(idx) positions (a[:n] = v).
FancyAssign_Prefix(a, idx, v, old) ==
    LET n == Len(idx)
        m == Len(v)
    IN IF m = n \/ m = 1
       THEN [err |-> "none",
             a |-> [k \in 1..Len(a) |->
                       IF k <= n THEN (IF m = n THEN v[k] ELSE v[1]) ELSE a[k]]]
       ELSE [err |-> "ValueError", a |-> a]

\* FancyAssign that writes the first value to every position of idx.
FancyAssign_Scalar(a, idx, v, old) ==
    IF v = <<>> THEN [err |-> "ValueError", a |-> a]
    ELSE [err |-> "none",
          a |-> [k \in 1..Len(a) |->
                    IF \E j \in 1..Len(idx) : idx[j] + 1 = k THEN v[1] ELSE a[k]]]

\* FancyAssign that writes the values it has before it raises.
FancyAssign_WritesThenRaises(a, idx, v, old) ==
    LET n == Len(idx)
        m == Len(v)
    IN IF m = n \/ m = 1 \/ m = 0
       THEN FancyAssign_Scalar(a, idx, v, old)
       ELSE [err |-> "ValueError",
             a |-> [k \in 1..Len(a) |->
                       IF \E j \in 1..n : j <= m /\ idx[j] + 1 = k
                       THEN v[CHOOSE j \in 1..n : j <= m /\ idx[j] + 1 = k]
                       ELSE a[k]]]

\* numpy a[idx] = v for an integer array idx and a one-dimensional v.
\* v of the length of idx is written element by element and v of length 1
\* is broadcast.  Any other length is an error since numpy 1.9; before, v
\* was repeated or cut to the length of idx (old = TRUE).
FancyAssign(a, idx, v, old) ==
    LET n == Len(idx)
        m == Len(v)
        Src(j) == IF m = n THEN v[j] ELSE v[((j - 1) % m) + 1]
        written == [k \in 1..Len(a) |->
                       IF \E j \in 1..n : idx[j] + 1 = k
                       THEN Src(CHOOSE j \in 1..n :
                                    /\ idx[j] + 1 = k
                                    /\ \A j2 \in 1..n : idx[j2] + 1 = k => j2 <= j)
                       ELSE a[k]]
    IN IF m = n \/ m = 1 THEN [err |-> "none", a |-> written]
       ELSE IF m = 0 \/ ~old THEN [err |-> "ValueError", a |-> a]
       ELSE [err |-> "none", a |-> written]

\* PortMapper.set(selector, data)
SetSelected(r, data, old) ==
    IF r.err # "none" THEN [err |-> r.err, a |-> heap[pm.data]]
    ELSE FancyAssign(heap[pm.data], r.df.values, data, old)
PortMapper_set(selector, data, old) ==
    SetSelected(select(pm.portmap, selector, None, None), data, old)

\* ------------------------------------------------------------------------
\* Actions
\* ------------------------------------------------------------------------
PmInit(arrays) ==
    /\ pm = NoPortMapper
    /\ heap \in {[ctor |-> a, tmp |-> <<>>] : a \in arrays}
    /\ tmp = "null"
    /\ last = Call("none", FALSE, <<>>, "none")

SelInitialOn(index_names) ==
    /\ lexer = NewLexer
    /\ df = TestDF
    /\ names = index_names
    /\ built = <<>>
    /\ out = NoSelCall
SelInitial == SelInitialOn(<<IntL(0), IntL(1), IntL(2)>>)

Init == PmInit(Arrays) /\ SelInitial

\* pm = PortMapper(ctor, selectors)
New(selectors) ==
    /\ ~pm.built
    /\ \E r \in {PortMapper_init("ctor", selectors)} :
       /\ pm' = r.pm
       /\ last' = Call("new", selectors.list, selectors.sels, r.err)
       /\ UNCHANGED <<heap, tmp, selVars>>

\* tmp = pm.get(selector)
Get(selector) ==
    /\ pm.built
    /\ \E r \in {PortMapper_get(selector)} :
       /\ last' = Call("get", FALSE, <<selector>>, r.err)
       /\ IF r.err = "none"
          THEN /\ tmp' = GetResultObject(pm.data)
               /\ heap' = [heap EXCEPT ![tmp'] = r.result]
          ELSE UNCHANGED <<heap, tmp>>
       /\ UNCHANGED <<pm, selVars>>

\* pm.set(selector, tmp)
Set(selector, old) ==
    /\ pm.built
    /\ tmp # "null"
    /\ \E r \in {PortMapper_set(selector, heap[tmp], old)} :
       /\ last' = Call("set", FALSE, <<selector>>, r.err)
       /\ heap' = [heap EXCEPT ![pm.data] = r.a]
       /\ UNCHANGED <<pm, tmp, selVars>>

\* The caller creates an array to pass to set: tmp = numpy.array(v)
CallerNew(v) ==
    /\ pm.built
    /\ tmp' = "tmp"
    /\ heap' = [heap EXCEPT !.tmp = v]
    /\ last' = Call("new_array", FALSE, <<>>, "none")
    /\ UNCHANGED <<pm, selVars>>

\* The caller writes an element of an array it holds: ctor[i] = x or
\* tmp[i] = x
CallerWrite(var, i, x) ==
    LET obj == IF var = "ctor" THEN "ctor" ELSE tmp
    IN /\ pm.built
       /\ obj # "null"
       /\ i \in 1..Len(heap[obj])
       /\ heap[obj][i] # x
       /\ heap' = [heap EXCEPT ![obj][i] = x]
       /\ last' = Call("write_" \o var, FALSE, <<>>, "none")
       /\ UNCHANGED <<pm, tmp, selVars>>

Next ==
    \/ \E selectors \in SelectorArgs : New(selectors)
    \/ \E selector \in QuerySelectors : Get(selector)
    \/ \E selector \in QuerySelectors, old \in BOOLEAN : Set(selector, old)
    \/ \E v \in ValueArrays : CallerNew(v)
    \/ \E var \in {"ctor", "tmp"}, i \in 1..MaxBuf, x \in Vals : CallerWrite(var, i, x)

\* The PortMapper in use: construction, get, set and the caller's writes.
Spec == Init /\ [][Next]_vars

\* Construction alone, on arrays of up to MaxKeys elements.
BuildInit == PmInit(SeqsUpTo(Vals, MaxKeys)) /\ SelInitial
BuildNext == \E selectors \in SelectorArgs : New(selectors)
BuildSpec == BuildInit /\ [][BuildNext]_vars

\* idx = sel.make_index(selector); df = pandas.DataFrame(index=idx)
\* (the assertion of make_index comes before its parse)
MakeIndex(selector) ==
    \E sc \in {self_parse(lexer, selector)} :
    \E r \in {make_index_parsed(selector, sc.res)} :
       /\ out' = SelCall("make_index", selector, None, None, r.err, r.idx.keys)
       /\ lexer' = IF StartsWithWildcard(selector) THEN lexer ELSE sc.lexer
       /\ IF r.err = "none"
          THEN /\ df' = MkSeries(r.idx, arange(Len(r.idx.keys)))
               /\ names' = [k \in 1..r.idx.nlevels |-> NoL]
               /\ built' = selector
          ELSE UNCHANGED <<df, names, built>>
       /\ UNCHANGED pmVars

\* idx = sel.make_index(selector, index_names);
\* df = pandas.DataFrame(index=idx)
MakeNamedIndex(selector, index_names) ==
    \E sc \in {self_parse(lexer, selector)} :
    \E r \in {make_index_named(make_index_parsed(selector, sc.res), index_names)} :
       /\ out' = SelCall("make_index", selector, None, None, r.err, r.idx.keys)
       /\ lexer' = IF StartsWithWildcard(selector) THEN lexer ELSE sc.lexer
       /\ IF r.err = "none"
          THEN /\ df' = MkSeries(r.idx, arange(Len(r.idx.keys)))
               /\ names' = index_names
               /\ built' = selector
          ELSE UNCHANGED <<df, names, built>>
       /\ UNCHANGED pmVars

\* sel.query(df, selector)
Query(selector, strict) ==
    \E sc \in {self_parse(lexer, selector)} :
    \E r \in {query_parsed(df, names, sc.res, strict)} :
       /\ out' = SelCall("query", selector, None, None, r.err, r.df.index.keys)
       /\ lexer' = sc.lexer
       /\ UNCHANGED <<df, names, built, pmVars>>

\* sel.get_tuples(df, selector, start, stop)
GetTuples(selector, start, stop) ==
    \E sc \in {self_parse(lexer, selector)} :
    \E r \in {get_tuples_parsed(df, sc.res, start, stop)} :
       /\ out' = SelCall("get_tuples", selector, start, stop, r.err, r.tuples)
       /\ lexer' = sc.lexer
       /\ UNCHANGED <<df, names, built, pmVars>>

\* sel.select(df, selector, start, stop)
Select(selector, start, stop) ==
    \E sc \in {self_parse(lexer, selector)} :
    \E r \in {select_parsed(df, sc.res, start, stop)} :
       /\ out' = SelCall("select", selector, start, stop, r.err, r.df.index.keys)
       /\ lexer' = sc.lexer
       /\ UNCHANGED <<df, names, built, pmVars>>

\* sel.get_index(df, selector, start, stop)
GetIndex(selector, start, stop) ==
    \E sc \in {self_parse(lexer, selector)} :
    \E r \in {get_index_tuples(get_tuples_parsed(df, sc.res, start, stop))} :
       /\ out' = SelCall("get_index", selector, start, stop, r.err, r.idx.keys)
       /\ lexer' = sc.lexer
       /\ UNCHANGED <<df, names, built, pmVars>>

\* sel.parse(selector)
Parse(selector) ==
    \E sc \in {self_parse(lexer, selector)} :
       /\ out' = SelCall("parse", selector, None, None,
                         IF sc.res.err = "none" THEN "none" ELSE "ValueError",
                         sc.res.toks)
       /\ lexer' = sc.lexer
       /\ UNCHANGED <<df, names, built, pmVars>>

\* sel.count_tokens(selector)
CountTokens(selector) ==
    \E sc \in {self_parse(lexer, selector)} :
    \E r \in {CountOf(sc.res)} :
       /\ out' = SelCall("count_tokens", selector, None, None, r.err,
                         IF r.err = "none" THEN <<r.count>> ELSE <<>>)
       /\ lexer' = sc.lexer
       /\ UNCHANGED <<df, names, built, pmVars>>

\* A PathLikeSelector used on the test table and on the tables it makes.
SelInit == PmInit({<<>>}) /\ \E index_names \in TestNames : SelInitialOn(index_names)
SelNext ==
    \/ \E selector \in BuildSelectors \cup BadSelectors : MakeIndex(selector)
    \/ \E selector \in BuildSelectors \cup TestSelectors \cup IntervalSelectors
                           \cup EvalSelectors \cup BadSelectors,
          w \in Windows :
          GetTuples(selector, w[1], w[2])
    \/ \E selector \in BuildSelectors \cup TestSelectors \cup IntervalSelectors
                           \cup EvalSelectors \cup BadSelectors,
          w \in Windows :
          Select(selector, w[1], w[2])
    \/ \E selector \in TestSelectors \cup EvalSelectors, w \in Windows :
          GetIndex(selector, w[1], w[2])
    \/ \E selector \in GrammarSelectors \cup IntegerSetSelectors :
          GetTuples(selector, None, None)
    \/ \E selector \in NamedSelectors, index_names \in NameLists :
          MakeNamedIndex(selector, index_names)
    \/ \E selector \in TestSelectors \cup EvalSelectors \cup QuerySelectors
                           \cup SetSelectors,
          strict \in BOOLEAN :
          Query(selector, strict)
    \/ \E selector \in LexSelectors : Parse(selector)
    \/ \E selector \in LexSelectors : CountTokens(selector)
SelSpec == SelInit /\ [][SelNext]_vars

\* ------------------------------------------------------------------------
\* Properties
\* ------------------------------------------------------------------------
HasWildcardToken(selector) ==
    \E k \in 1..Len(parse(selector).toks) : parse(selector).toks[k].type = "ASTERISK"

ContainsStar(selector) == \E k \in 1..Len(selector) : selector[k] = "*"

\* The rows of the PortMapper's table whose key matches the selector.
MatchedRows(selector) ==
    {r \in 1..Len(pm.portmap.index.keys) :
        _select_test(pm.portmap.index.keys[r], parse(selector).toks, None, None)}

\* The selection of get and set succeeds for the selector.
Selects(selector) == select(pm.portmap, selector, None, None).err = "none"

\* The rank of row r among the rows M (1 for the first).
Rank(M, r) == Cardinality({q \in M : q <= r})

\* The buffer position bound to row r of the PortMapper's table (1-based).
Pos(r) == pm.portmap.values[r] + 1

\* C1: a table made by make_index(s), s without wildcard token, and then
\* selected with the same s and the default window, by get_tuples or by
\* select, yields all its keys, one per row, in the order of the table.
C1_BuildThenSelect ==
    (/\ out.op \in {"get_tuples", "select"}
     /\ built # <<>>
     /\ out.sel = built
     /\ out.start = None /\ out.stop = None
     /\ ~HasWildcardToken(built))
    => (out.err = "none" /\ out.keys = df.index.keys)

C1_Witness ==
    /\ out.op = "get_tuples"
    /\ built # <<>> /\ out.sel = built /\ ~HasWildcardToken(built)
    /\ out.start = None /\ out.stop = None
    /\ Len(df.index.keys) = 4
    /\ out.keys = df.index.keys

\* C2: the array get returns is a new array that holds, for the rows whose
\* key matches the selector, taken in table order, the buffer elements at
\* the positions bound to those rows.
C2_GetReturnsMatched ==
    (last.op = "get" /\ last.err = "none")
    => LET M == MatchedRows(last.sels[1])
       IN /\ tmp # pm.data
          /\ Len(heap[tmp]) = Cardinality(M)
          /\ \A r \in M : heap[tmp][Rank(M, r)] = heap[pm.data][Pos(r)]

\* get("/a[1]") on the buffer [10,20,10] bound to "/a[0:3]" returned [20].
C2_Witness ==
    /\ last.op = "get" /\ last.err = "none"
    /\ last.sels[1] = cA \o cI1
    /\ Len(pm.portmap.index.keys) = 3
    /\ heap[pm.data] = <<10, 20, 10>>
    /\ heap[tmp] = <<20>>

\* C3: a set whose values array is as long as the number of matched rows
\* succeeds, writes value j to the position of the j-th matched row, and
\* leaves the other buffer positions and the table as they were.
C3_SetWritesMatched ==
    [][(/\ last'.op = "set"
        /\ Selects(last'.sels[1])
        /\ Len(heap[tmp]) = Cardinality(MatchedRows(last'.sels[1])))
       => LET M == MatchedRows(last'.sels[1])
          IN /\ last'.err = "none"
             /\ \A r \in M : heap'[pm.data][Pos(r)] = heap[tmp][Rank(M, r)]
             /\ \A k \in 1..Len(heap[pm.data]) :
                   (\A r \in M : Pos(r) # k) => heap'[pm.data][k] = heap[pm.data][k]
             /\ Len(heap'[pm.data]) = Len(heap[pm.data])
             /\ pm' = pm]_vars

\* A set of two values that differ, on a table of three rows, was done.
C3_Witness ==
    /\ last.op = "set" /\ last.err = "none"
    /\ Len(pm.portmap.index.keys) = 3
    /\ Cardinality(MatchedRows(last.sels[1])) = 2
    /\ Len(heap[tmp]) = 2 /\ heap[tmp][1] # heap[tmp][2]
    /\ \A r \in MatchedRows(last.sels[1]) :
          heap[pm.data][Pos(r)] = heap[tmp][Rank(MatchedRows(last.sels[1]), r)]

\* C4: after v = get(s), set(s, v) succeeds and leaves the whole buffer as
\* it was, and get(s) then returns v again.
C4_RoundTrip ==
    [][(/\ last.op = "get" /\ last.err = "none"
        /\ last'.op = "set" /\ last'.sels = last.sels)
       => /\ last'.err = "none"
          /\ heap'[pm.data] = heap[pm.data]
          /\ pm' = pm
          /\ PortMapper_get(last.sels[1])'.err = "none"
          /\ PortMapper_get(last.sels[1])'.result = heap[tmp]]_vars

\* A set that was passed just what get returns for its selector: two
\* values that differ, of a table of three rows.
C4_Witness ==
    /\ last.op = "set" /\ last.err = "none"
    /\ Len(pm.portmap.index.keys) = 3
    /\ Len(heap[tmp]) = 2 /\ heap[tmp][1] # heap[tmp][2]
    /\ heap[tmp] = PortMapper_get(last.sels[1]).result

\* C5: no get, whether it returns or raises, changes the buffer or the
\* table.
C5_GetNeverMutates ==
    [][last'.op = "get" => (heap'[pm.data] = heap[pm.data] /\ pm' = pm)]_vars

\* A get returned some, not all, of the elements of the buffer.
C5_Witness ==
    /\ last.op = "get" /\ last.err = "none"
    /\ Len(heap[tmp]) >= 1
    /\ Len(heap[tmp]) < Len(heap[pm.data])

\* C6: a set whose values array is not as long as the number of matched
\* rows raises.
C6_SetLengthMismatchFails ==
    (/\ last.op = "set"
     /\ Selects(last.sels[1])
     /\ Len(heap[tmp]) # Cardinality(MatchedRows(last.sels[1])))
    => last.err # "none"

\* C7: the constructor raises when the selectors make a number of keys that
\* differs from the length of the array, and a constructed PortMapper's
\* table always has as many rows as the buffer has elements, row r being
\* bound to position r - 1.
C7_TableMatchesBuffer ==
    /\ pm.built =>
          /\ Len(pm.portmap.index.keys) = Len(heap[pm.data])
          /\ Len(pm.portmap.values) = Len(heap[pm.data])
          /\ \A r \in 1..Len(pm.portmap.values) : pm.portmap.values[r] = r - 1
    /\ (/\ last.op = "new"
        /\ BuildIdx([list |-> last.list, sels |-> last.sels]).err = "none"
        /\ Len(BuildIdx([list |-> last.list, sels |-> last.sels]).idx.keys)
              # Len(heap.ctor))
       => (last.err # "none" /\ ~pm.built)

\* After a set, a table of three rows bound to a buffer of three elements.
C7_Witness ==
    /\ pm.built
    /\ last.op = "set" /\ last.err = "none"
    /\ Len(pm.portmap.index.keys) = 3
    /\ Len(heap[pm.data]) = 3

Candidates(token) ==
    IF token.type = "INTERVAL"
    THEN [k \in 1..(token.stop - token.start) |-> IntL(token.start + k - 1)]
    ELSE IF token.type \in {"INTEGER_SET", "STRING_SET"} THEN token.values
    ELSE <<token.value>>

\* The cartesian product of lists, the first list varying slowest.
RECURSIVE LexProduct(_)
LexProduct(lists) ==
    IF lists = <<>> THEN << <<>> >>
    ELSE LET rest == LexProduct(Tail(lists))
         IN Flatten([i \in 1..Len(Head(lists)) |->
                        [j \in 1..Len(rest) |-> <<Head(lists)[i]>> \o rest[j]]])

ProductOf(selector) ==
    LexProduct([k \in 1..Len(parse(selector).toks) |->
                   Candidates(parse(selector).toks[k])])

\* C9: the keys of a constructed PortMapper are the products of its
\* selectors, one after the other in the order given, each product in
\* lexicographic order with the first token slowest, and the key at list
\* index i is bound to buffer position i.
C9_KeyOrder ==
    (last.op = "new" /\ last.err = "none")
    => /\ pm.portmap.index.keys
             = Flatten([k \in 1..Len(last.sels) |-> ProductOf(last.sels[k])])
       /\ \A r \in 1..Len(pm.portmap.values) : pm.portmap.values[r] = r - 1

\* C10: make_index raises for every selector that contains '*'.
C10_WildcardFails ==
    (out.op = "make_index" /\ ContainsStar(out.sel)) => out.err # "none"

\* The selectors of the last construction all make an index, and not all
\* of the same number of levels.
MixedArity ==
    /\ \A k \in 1..Len(last.sels) : make_index(last.sels[k]).err = "none"
    /\ \E i, j \in 1..Len(last.sels) :
          make_index(last.sels[i]).idx.nlevels # make_index(last.sels[j]).idx.nlevels

\* C11: constructing a PortMapper from a list of selectors whose indexes
\* differ in their number of levels raises, and all the keys of a
\* constructed PortMapper's table have the same number of levels.
C11_MixedArityFails ==
    /\ (last.op = "new" /\ last.list /\ MixedArity) => last.err # "none"
    /\ pm.built =>
          \A r \in 1..Len(pm.portmap.index.keys) :
             Len(pm.portmap.index.keys[r]) = Len(pm.portmap.index.keys[1])

\* C12: the table make_index returns and the table of a constructed
\* PortMapper hold no key twice.
C12_NoDuplicateKeys ==
    /\ (out.op = "make_index" /\ out.err = "none") => IsUnique(out.keys)
    /\ pm.built => IsUnique(pm.portmap.index.keys)

\* The number of levels of the window (start, stop) of a table of n levels:
\* the levels l with start <= l < stop, start defaulting to 0 and stop to n.
WindowLevels(n, start, stop) ==
    Cardinality({l \in 0..(n - 1) :
                   /\ (start = None \/ start <= l)
                   /\ (stop = None \/ l < stop)})

\* C13: get_tuples and select raise the arity error, and return no key,
\* whenever the selector has more tokens than the window has levels.
C13_ArityCheck ==
    (/\ out.op \in {"get_tuples", "select"}
     /\ parse(out.sel).err = "none"
     /\ Len(parse(out.sel).toks) > WindowLevels(df.index.nlevels, out.start, out.stop))
    => (out.err = "ValueError" /\ out.keys = <<>>)

\* A selector of three tokens was refused on the window of the last two of
\* the three levels of the test table.
C13_Witness ==
    /\ out.op = "select"
    /\ df = TestDF
    /\ out.start = 1 /\ out.stop = None
    /\ Len(parse(out.sel).toks) = 3
    /\ out.err = "ValueError"

\* The integer x lies in the interval the bounds lo and hi denote.
InInterval(x, lo, hi) ==
    /\ (IF lo = None THEN 0 ELSE lo) <= x
    /\ (hi = None \/ x < hi)

\* The key starts with the labels of prefix and has an integer next.
IntegerAfterPrefix(key, prefix) ==
    /\ Len(key) > Len(prefix)
    /\ SubSeq(key, 1, Len(prefix)) = prefix
    /\ key[Len(prefix) + 1].t = "int"

\* C14: an interval token [a:b] matches the integer label x iff
\* a <= x < b, a missing a standing for 0 and a missing b for no upper
\* bound: get_tuples and select with a selector that ends in an interval
\* return, of the keys that carry the selector's string labels and then an
\* integer, exactly those whose integer lies in the interval.
C14_IntervalMatches ==
    \A c \in IntervalCases :
       (/\ out.op \in {"get_tuples", "select"}
        /\ out.sel = c.sel
        /\ out.start = None /\ out.stop = None
        /\ df.index.nlevels > Len(c.prefix)
        /\ (out.op = "select" => IsUnique(df.index.keys)))
       => /\ out.err = "none"
          /\ \A r \in 1..Len(df.index.keys) :
                IntegerAfterPrefix(df.index.keys[r], c.prefix)
                => ((\E j \in 1..Len(out.keys) : out.keys[j] = df.index.keys[r])
                    <=> InInterval(df.index.keys[r][Len(c.prefix) + 1].i, c.lo, c.hi))

\* get_tuples with /foo/mof[1:] on the test table returned (foo,mof,1) and
\* (foo,mof,2).
C14_Witness ==
    /\ out.op = "get_tuples" /\ out.err = "none"
    /\ out.sel = cFoo \o cMof \o cIv(<<"1">>, <<>>)
    /\ out.start = None /\ out.stop = None
    /\ df = TestDF
    /\ out.keys = <<df.index.keys[4], df.index.keys[5]>>

\* The token passes the label: a wildcard always, an exact token iff the
\* label is its value, a set iff the label is one of its values.
Passes(token, label) ==
    CASE token.type = "ASTERISK" -> TRUE
      [] token.type \in {"INTEGER", "STRING"} -> label = token.value
      [] token.type \in {"INTEGER_SET", "STRING_SET"} ->
            label \in {token.values[k] : k \in 1..Len(token.values)}

NoIntervalToken(toks) == \A i \in 1..Len(toks) : toks[i].type # "INTERVAL"

\* C15: a key is selected iff every token i (counted from 0) passes the
\* label of the key at level start + i; the levels after the last token
\* are free, and a selector of no token selects every key.
C15_SelectTest ==
    (/\ out.op \in {"get_tuples", "select"}
     /\ out.err = "none"
     /\ NoIntervalToken(parse(out.sel).toks))
    => \A r \in 1..Len(df.index.keys) :
          (\E j \in 1..Len(out.keys) : out.keys[j] = df.index.keys[r])
          <=> \A i \in 1..Len(parse(out.sel).toks) :
                 Passes(parse(out.sel).toks[i],
                        df.index.keys[r][(IF out.start = None THEN 0 ELSE out.start) + i])

\* select with /*/qux on the test table returned the six keys whose second
\* label is qux.
C15_Witness ==
    /\ out.op = "select" /\ out.err = "none"
    /\ out.sel = cStar \o cQux
    /\ out.start = None /\ out.stop = None
    /\ df = TestDF
    /\ out.keys = <<df.index.keys[1], df.index.keys[2], df.index.keys[6],
                    df.index.keys[7], df.index.keys[8], df.index.keys[9]>>

\* The rows of df whose key is among the keys the last call returned.
KeptRows == {r \in 1..Len(df.index.keys) :
                \E j \in 1..Len(out.keys) : out.keys[j] = df.index.keys[r]}

\* The keys of the rows R of df in the order of the table.
RECURSIVE InTableOrder(_)
InTableOrder(R) ==
    IF R = {} THEN <<>>
    ELSE LET m == CHOOSE r \in R : \A q \in R : q <= r
         IN Append(InTableOrder(R \ {m}), df.index.keys[m])

\* The token lists differ at most in the order of the values of their sets.
SameUpToSetOrder(toks1, toks2) ==
    /\ Len(toks1) = Len(toks2)
    /\ \A i \in 1..Len(toks1) :
          /\ toks1[i].type = toks2[i].type
          /\ IF toks1[i].type \in {"INTEGER_SET", "STRING_SET"}
             THEN {toks1[i].values[k] : k \in 1..Len(toks1[i].values)}
                  = {toks2[i].values[k] : k \in 1..Len(toks2[i].values)}
             ELSE toks1[i] = toks2[i]

\* C16: get_tuples and select list the keys they return in the order of
\* the table, and two selectors that differ only in the order of the
\* values of a set return the same sequence of keys.
C16_TableOrder ==
    /\ [](out.op \in {"get_tuples", "select"} /\ out.err = "none"
              => out.keys = InTableOrder(KeptRows))
    /\ [][(/\ out.op \in {"get_tuples", "select"} /\ out'.op = out.op
           /\ out.err = "none" /\ out'.err = "none"
           /\ df' = df /\ out'.start = out.start /\ out'.stop = out.stop
           /\ SameUpToSetOrder(parse(out.sel).toks, parse(out'.sel).toks))
          => out'.keys = out.keys]_vars

\* select with /foo/[mof,qux] on the test table returned the keys of foo,
\* those of qux before those of mof as in the table.
C16_Witness ==
    /\ out.op = "select" /\ out.err = "none"
    /\ out.sel = cFoo \o cSlash \o <<"[", "m", "o", "f", ",", "q", "u", "x", "]">>
    /\ out.start = None /\ out.stop = None
    /\ df = TestDF
    /\ out.keys = SubSeq(df.index.keys, 1, 5)

\* Tokens as the claims name them.
String(cs) == Tok("STRING", StrL(cs), <<>>, 0, 0, FALSE)
Exact(n) == Tok("INTEGER", IntL(n), <<>>, 0, 0, FALSE)
IntSet(ns) == Tok("INTEGER_SET", NoL, [k \in 1..Len(ns) |-> IntL(ns[k])], 0, 0, FALSE)

\* The last call was made with the selector on the test table and the
\* default window.
OnTestTable(selector) ==
    /\ out.op \in {"get_tuples", "select"}
    /\ out.sel = selector
    /\ out.start = None /\ out.stop = None
    /\ df = TestDF

\* C17: a bracketed token written right after a string, with no
\* separator, is a token of its own for the next level: /bar/qux[1] is
\* String(bar), String(qux), Exact(1) and selects (bar,qux,1) alone,
\* /foo/qux[0,1] selects the keys of foo and qux whose third label is 0 or
\* 1, and a string followed by an interval is the string's token and then
\* the interval's.
C17_BracketIsNextLevel ==
    /\ OnTestTable(cBar \o cQux \o cI1)
       => /\ parse(out.sel) = [err |-> "none",
                               toks |-> <<String(<<"b", "a", "r">>),
                                          String(<<"q", "u", "x">>), Exact(1)>>]
          /\ out.err = "none"
          /\ out.keys = <<df.index.keys[7]>>
    /\ OnTestTable(cFoo \o cQux \o cSet("0", "1"))
       => /\ parse(out.sel) = [err |-> "none",
                               toks |-> <<String(<<"f", "o", "o">>),
                                          String(<<"q", "u", "x">>), IntSet(<<0, 1>>)>>]
          /\ out.err = "none"
          /\ out.keys = <<df.index.keys[1], df.index.keys[2]>>
    /\ \A c \in IntervalCases :
          out.sel = c.sel
          => /\ parse(out.sel).err = "none"
             /\ Len(parse(out.sel).toks) = Len(c.prefix) + 1
             /\ \A i \in 1..Len(c.prefix) :
                   parse(out.sel).toks[i] = String(c.prefix[i].s)
             /\ parse(out.sel).toks[Len(c.prefix) + 1].type = "INTERVAL"

\* select with /bar/qux[1] on the test table returned (bar,qux,1) alone.
C17_Witness ==
    /\ OnTestTable(cBar \o cQux \o cI1)
    /\ out.op = "select" /\ out.err = "none"
    /\ out.keys = <<df.index.keys[7]>>

\* The positions of s at which the lexer looks for a token, from p on.
RECURSIVE ScanFrom(_, _)
ScanFrom(s, p) ==
    IF p > Len(s) THEN {}
    ELSE {p} \cup (IF LexStep(s, p).end = 0 \/ ~LexStep(s, p).r.ok THEN {}
                   ELSE ScanFrom(s, LexStep(s, p).end))

\* None of the six token rules matches at position p of s.
NoRuleMatches(s, p) ==
    \A rule \in DOMAIN LexMatches(s, p) : LexMatches(s, p)[rule] = 0

\* C18: a selector with a scan position at which none of the six rules
\* matches makes parse raise: there is no token list, and make_index,
\* get_tuples and select raise and return nothing, also when tokens were
\* found before that position.
C18_LexErrorFailsWhole ==
    (/\ out.op \in {"make_index", "get_tuples", "select"}
     /\ \E p \in ScanFrom(out.sel, 1) : NoRuleMatches(out.sel, p))
    => /\ parse(out.sel).err # "none"
       /\ parse(out.sel).toks = <<>>
       /\ out.err = "ValueError"
       /\ out.keys = <<>>

\* get_tuples raised for /foo:, whose /foo is a token and whose colon is
\* none.
C18_Witness ==
    /\ out.op = "get_tuples"
    /\ out.sel = cFoo \o <<":">>
    /\ LexStep(out.sel, 1).end = 5
    /\ NoRuleMatches(out.sel, 5)
    /\ out.err = "ValueError"

\* The selector parses, has no more tokens than the table has levels, and
\* no key of the table passes it.
MatchesNoKey(tbl, selector) ==
    /\ parse(selector).err = "none"
    /\ Len(parse(selector).toks) <= tbl.index.nlevels
    /\ \A r \in 1..Len(tbl.index.keys) :
          ~_select_test(tbl.index.keys[r], parse(selector).toks, None, None)

\* C19: get_tuples, select and get_index with a selector that parses,
\* is within the levels of the table and matches no key return an empty
\* result and do not raise; so does get of a PortMapper.
C19_EmptyResultNotError ==
    /\ (/\ out.op \in {"get_tuples", "select", "get_index"}
        /\ out.start = None /\ out.stop = None
        /\ MatchesNoKey(df, out.sel))
       => (out.err = "none" /\ out.keys = <<>>)
    /\ (last.op = "get" /\ MatchesNoKey(pm.portmap, last.sels[1]))
       => (last.err = "none" /\ heap[tmp] = <<>>)

\* C20: every selector ("/" segment)+ parses into one token for each
\* segment, of the kind and value the segment denotes.
C20_GrammarTokenizes ==
    \A c \in GrammarCases :
       (out.op = "get_tuples" /\ out.sel = c.sel)
       => parse(out.sel) = [err |-> "none", toks |-> c.toks]

\* The integers the digit groups denote, in the written order.
IntegersOf(groups) == [k \in 1..Len(groups) |-> ToInt(groups[k])]

\* C21: an integer set of two or more digit groups, written without or with
\* the leading separator, parses into one integer-set token holding the
\* integers in the written order, duplicates kept.
C21_IntegerSetWithOrWithoutSeparator ==
    \A c \in IntegerSetCases :
       (out.op = "get_tuples" /\ out.sel \in {c.bare, c.sep})
       => parse(out.sel) = [err |-> "none", toks |-> <<IntSet(IntegersOf(c.groups))>>]

\* The part of C21 for the set written without the separator.
C21_BareIntegerSet ==
    \A c \in IntegerSetCases :
       (out.op = "get_tuples" /\ out.sel = c.bare)
       => parse(out.sel) = [err |-> "none", toks |-> <<IntSet(IntegersOf(c.groups))>>]

\* What a PathLikeSelector made for this call alone returns or raises for
\* the call recorded in out.
FreshResult ==
    IF out.op = "parse" THEN
        [err |-> IF parse(out.sel).err = "none" THEN "none" ELSE "ValueError",
         keys |-> parse(out.sel).toks]
    ELSE IF out.op = "count_tokens" THEN
        [err |-> IF parse(out.sel).err = "none" THEN "none" ELSE "ValueError",
         keys |-> IF parse(out.sel).err = "none"
                  THEN <<Len(parse(out.sel).toks)>> ELSE <<>>]
    ELSE [err |-> select(df, out.sel, out.start, out.stop).err,
          keys |-> select(df, out.sel, out.start, out.stop).df.index.keys]

\* C23: whatever the instance was called with before, also a selector
\* that made the scan stop part-way, parse, count_tokens and select return
\* what an instance made for the call returns: the result depends on the
\* arguments only, so the same call made twice returns the same.
C23_Stateless ==
    out.op \in {"parse", "count_tokens", "select"}
    => (out.err = FreshResult.err /\ out.keys = FreshResult.keys)

\* select returned the five rows of /foo from the test table on an instance
\* whose lexer had scanned before and holds the position it stopped at.
C23_Witness ==
    /\ out.op = "select"
    /\ out.sel = cFoo
    /\ df = TestDF
    /\ Len(out.keys) = 5
    /\ lexer = [lexdata |-> cFoo, lexpos |-> Len(cFoo) + 2]

\* C22: when query and select with the default window both accept the
\* table and the selector, query returns the rows select returns, in the
\* same order.
C22_QueryEqualsSelect ==
    (/\ out.op = "query"
     /\ out.err = "none"
     /\ select(df, out.sel, None, None).err = "none")
    => out.keys = select(df, out.sel, None, None).df.index.keys

\* No token of the selector is an integer set or a string set.
NoSetToken(selector) ==
    \A k \in 1..Len(parse(selector).toks) :
       parse(selector).toks[k].type \notin {"INTEGER_SET", "STRING_SET"}

\* The part of C22 for selectors without a set token.
C22_QueryEqualsSelectWithoutSets ==
    (/\ out.op = "query"
     /\ out.err = "none"
     /\ NoSetToken(out.sel)
     /\ select(df, out.sel, None, None).err = "none")
    => out.keys = select(df, out.sel, None, None).df.index.keys

\* The largest product of candidate-list sizes an index may be made for.
AllowedProduct == 3

\* The selector parses into tokens with finite candidate lists.
FiniteCandidates(selector) ==
    /\ parse(selector).err = "none"
    /\ \A k \in 1..Len(parse(selector).toks) :
          ~(parse(selector).toks[k].type = "INTERVAL" /\ parse(selector).toks[k].inf)

\* The product of the sizes of the candidate lists of the selector's tokens.
SizeProduct(selector) ==
    SeqProduct([k \in 1..Len(parse(selector).toks) |->
                   Len(Candidates(parse(selector).toks[k]))])

\* C24: make_index raises a resource error, and makes no table, when the
\* product of the sizes of the candidate lists exceeds the allowed size.
C24_SizeGuard ==
    (/\ out.op = "make_index"
     /\ ~StartsWithWildcard(out.sel)
     /\ FiniteCandidates(out.sel)
     /\ SizeProduct(out.sel) > AllowedProduct)
    => (out.err = "ResourceError" /\ out.keys = <<>>)

\* C25: a set that raises, whatever the reason, leaves every element of
\* the buffer, the caller's array and the table as they were.
C25_FailedSetWritesNothing ==
    [][(last'.op = "set" /\ last'.err # "none") => (heap' = heap /\ pm' = pm)]_vars

\* set raised for two values on a selector that parses and matches all
\* three keys of the table.
C25_Witness ==
    /\ last.op = "set"
    /\ last.err = "ValueError"
    /\ parse(last.sels[1]).err = "none"
    /\ Len(parse(last.sels[1]).toks) <= pm.portmap.index.nlevels
    /\ Cardinality(MatchedRows(last.sels[1])) = 3
    /\ Len(heap[tmp]) = 2

====
